---- MODULE Spec2Model ----
(***************************************************************************)
(* F1-TelemetryHub: the session bundle builder (data_processor.py) and the *)
(* page state that holds the bundle (app.py).                              *)
(*                                                                         *)
(* The Session Store (fastf1) is the environment.  A `session` record      *)
(* says how the Store answers each call the builder makes: a value, an     *)
(* absent attribute (hasattr is False), or a raised exception.            *)
(***************************************************************************)
EXTENDS Integers, Sequences, FiniteSets, TLC

VARIABLES
    session_data,   \* st.session_state.session_data
    data_loaded,    \* st.session_state.data_loaded
    pc,             \* position of the page script: "idle" between runs, "line159" and
                    \* "line160" inside F1DashboardApp.load_session_data, "line741" in run
    pending,        \* the local `session_data` of F1DashboardApp.load_session_data
    ui,             \* st.success / st.error messages of the last load request
    ret,            \* return value of the last F1DashboardApp.load_session_data call
    session,        \* the Store's answers for the request (or helper call) under way
    out,            \* outcome of the last call into F1DataProcessor
    view            \* what the main content of the current page run has rendered

vars == <<session_data, data_loaded, pc, pending, ui, ret, session, out, view>>

(***************************************************************************)
(* Bounds                                                                  *)
(***************************************************************************)
MaxDrivers == 2
MaxLaps == 2        \* laps per driver
MaxLapTime == 2     \* lap durations 1..MaxLapTime; 0 is NaT (no time set)
MaxSamples == 2     \* rows of a car-data table
MaxTime == 2        \* elapsed seconds of the first sample of a table
MaxSpeed == 3       \* speed of a sample, km/h
MaxEvents == 2      \* rows of an event schedule, and distinct event names

DriverNs == 1..MaxDrivers

(***************************************************************************)
(* Python values                                                           *)
(***************************************************************************)
None == [type |-> "NoneType"]

\* A value other than None that the Store holds under `name`.
Val(name) == [type |-> "value", v |-> name]

\* A driver number as the Store hands it out: a str or an int.
Num(kind, n) == [kind |-> kind, n |-> n]

\* Python's str() on a driver number.
str(x) == [kind |-> "str", n |-> x.n]

\* A value the Store holds in column/attribute `col` for driver n.
StoreValue(col, n) == [col |-> col, n |-> n]

\* Outcome of a call: it raised, or it returned `value`.
Raised == [raised |-> TRUE, value |-> None]
Returned(v) == [raised |-> FALSE, value |-> v]

\* dict[key] = value
DictSet(d, k, v) == [x \in (DOMAIN d) \cup {k} |-> IF x = k THEN v ELSE d[x]]

\* dict.update(other)
DictUpdate(d, e) == [x \in (DOMAIN d) \cup (DOMAIN e) |-> IF x \in DOMAIN e THEN e[x] ELSE d[x]]

EmptyDict == [x \in {} |-> None]

(***************************************************************************)
(* _get_driver_info                                                        *)
(*   session.results : [attr : "absent" | "raise" | "present", rows]       *)
(*     a row is [DriverNumber, complete]; complete = FALSE is a row in     *)
(*     which reading one of the five fields raises                         *)
(*   session.drivers : [raises, list]                                      *)
(*   session.get_driver[n] : "ok" | "none" | "raise"                       *)
(*   session.team_color[n] : "ok" | "raise"  (fastf1.plotting.team_color)  *)
(***************************************************************************)

\* Lines 92-98: the record of one results row; raises when a field is missing.
ResultsRowInfo(row) ==
    IF ~row.complete THEN Raised
    ELSE Returned([number       |-> str(row.DriverNumber),
                   abbreviation |-> StoreValue("Abbreviation", row.DriverNumber.n),
                   fullname     |-> StoreValue("FullName", row.DriverNumber.n),
                   team         |-> StoreValue("TeamName", row.DriverNumber.n),
                   team_color   |-> StoreValue("TeamColor", row.DriverNumber.n)])

\* Lines 91-99 with line 92 assigning the list instead of appending to it.
RECURSIVE ResultsLoop_overwrite(_, _)
ResultsLoop_overwrite(rows, drivers_info) ==
    IF rows = <<>> THEN Returned(drivers_info)
    ELSE LET r == ResultsRowInfo(Head(rows)) IN
         IF r.raised THEN Raised
         ELSE ResultsLoop_overwrite(Tail(rows), <<r.value>>)

\* Lines 91-99: the loop over results_df.iterrows(); no handler inside the loop,
\* so the first row that raises ends the loop with the exception.
RECURSIVE ResultsLoop(_, _)
ResultsLoop(rows, drivers_info) ==
    IF rows = <<>> THEN Returned(drivers_info)
    ELSE LET r == ResultsRowInfo(Head(rows)) IN
         IF r.raised THEN Raised
         ELSE ResultsLoop(Tail(rows), Append(drivers_info, r.value))

\* Lines 107-116: the body of the inner try for one driver number.
\* Returns the records to append (none when get_driver returned None).
DriverLookup(s, driver_number) ==
    LET n == driver_number.n IN
    IF s.get_driver[n] = "raise" THEN Raised
    ELSE IF s.get_driver[n] = "none" THEN Returned(<<>>)
    ELSE IF s.team_color[n] = "raise" THEN Raised
    ELSE Returned(<<[number       |-> str(driver_number),
                     abbreviation |-> StoreValue("Abbreviation", n),
                     fullname     |-> StoreValue("FirstName LastName", n),
                     team         |-> StoreValue("TeamName", n),
                     team_color   |-> StoreValue("team_color(TeamName)", n)]>>)

\* Lines 117-119 with a handler that lets the exception out of the loop.
DriverLookupGuarded_abort(s, driver_number) ==
    DriverLookup(s, driver_number)

\* Lines 106-119: try / except Exception: continue.
DriverLookupGuarded(s, driver_number) ==
    LET r == DriverLookup(s, driver_number) IN
    IF r.raised THEN Returned(<<>>) ELSE r

\* Lines 105-119: the fallback loop over session.drivers.
RECURSIVE DriversLoop(_, _, _)
DriversLoop(s, ds, drivers_info) ==
    IF ds = <<>> THEN Returned(drivers_info)
    ELSE LET r == DriverLookupGuarded(s, Head(ds)) IN
         IF r.raised THEN Raised
         ELSE DriversLoop(s, Tail(ds), drivers_info \o r.value)

\* Lines 86-122 with the loop over session.drivers (105-119) run after the
\* loop over the results table as well.
DriverInfoBody_both(s) ==
    IF s.results.attr = "raise" THEN [raised |-> TRUE, value |-> None, reads |-> {"results"}]
    ELSE IF s.drivers.raises THEN
        [raised |-> TRUE, value |-> None, reads |-> {"results", "drivers"}]
    ELSE
        LET first == IF s.results.attr = "present" THEN ResultsLoop(s.results.rows, <<>>)
                     ELSE Returned(<<>>)
            r     == IF first.raised THEN Raised
                     ELSE DriversLoop(s, s.drivers.list, first.value)
        IN  [raised |-> r.raised, value |-> r.value,
             reads  |-> {"results", "drivers"} \cup
                        (IF s.drivers.list = <<>> THEN {} ELSE {"get_driver"})]

\* Lines 86-122: the body of the outer try.  `reads` names the Store members
\* the body touched.
DriverInfoBody(s) ==
    IF s.results.attr = "raise" THEN [raised |-> TRUE, value |-> None, reads |-> {"results"}]
    ELSE IF s.results.attr = "present" THEN
        LET r == ResultsLoop(s.results.rows, <<>>) IN
        [raised |-> r.raised, value |-> r.value, reads |-> {"results"}]
    ELSE IF s.drivers.raises THEN
        [raised |-> TRUE, value |-> None, reads |-> {"results", "drivers"}]
    ELSE
        LET r == DriversLoop(s, s.drivers.list, <<>>) IN
        [raised |-> r.raised, value |-> r.value,
         reads  |-> {"results", "drivers"} \cup
                    (IF s.drivers.list = <<>> THEN {} ELSE {"get_driver"})]

\* _get_driver_info without the outer handler of lines 124-126.
_get_driver_info_unguarded(s) ==
    DriverInfoBody(s)

\* Lines 81-126.
_get_driver_info(s) ==
    LET r == DriverInfoBody(s) IN
    IF r.raised THEN [raised |-> FALSE, value |-> <<>>, reads |-> r.reads] ELSE r

(***************************************************************************)
(* _get_telemetry_data                                                     *)
(*   session.laps : "raise" | "empty" | "rows"   (reading session.laps)    *)
(*   session.car[n] : what the Store answers for driver n's fastest lap    *)
(*     "raise"     pick_driver, pick_fastest or get_car_data raises        *)
(*     "nolaps"    driver_laps.empty                                       *)
(*     "nofastest" pick_fastest() is None                                  *)
(*     "empty"     car_data.empty                                          *)
(*     "nodist"    car data without a Distance column                      *)
(*     "dist"      car data with a Distance column                         *)
(*   session.laptimes[n] : the LapTime column of driver n's laps           *)
(*   session.samples[n][k] : the car-data rows of lap k of driver n, each  *)
(*     [Time, Speed, Distance]; the Store exposes the Distance column only *)
(*     when car[n] = "dist"                                                *)
(***************************************************************************)
TelemetryOutcomes == {"raise", "nolaps", "nofastest", "empty", "nodist", "dist"}

\* A distance in metres as the fraction num / den.
Frac(num, den) == [num |-> num, den |-> den]

\* Laps.pick_fastest(): the lap with the smallest LapTime, the first of them
\* when several share it; laps without a time are not candidates.
pick_fastest(times) ==
    CHOOSE i \in DOMAIN times :
        /\ times[i] # 0
        /\ \A j \in DOMAIN times :
              times[j] # 0 => (times[i] < times[j] \/ (times[i] = times[j] /\ i <= j))

\* The channels of every car-data table of the Store (test.py lines 57-58,
\* app.py line 435); the rows of the model carry Time and Speed only.
CarChannels == {"Time", "Speed", "RPM", "nGear", "DRS"}

\* Lap.get_car_data(): the table of one lap, with the columns the Store exposes.
get_car_data(s, n, lap) ==
    IF s.car[n] = "dist"
    THEN [columns |-> CarChannels \cup {"Distance"}, rows |-> s.samples[n][lap]]
    ELSE [columns |-> CarChannels,
          rows    |-> [i \in DOMAIN s.samples[n][lap] |->
                         [Time  |-> s.samples[n][lap][i].Time,
                          Speed |-> s.samples[n][lap][i].Speed]]]

\* Line 205 with the factor 3.6 applied the wrong way round.
DerivedDistance_times(time, speed) ==
    Frac(time * speed * 36, 10)

\* Line 205: Time.dt.total_seconds() * Speed / 3.6, for one row.
DerivedDistance(time, speed) ==
    Frac(time * speed * 10, 36)

\* Lines 203-205: the table with a Distance column, added when it is missing.
WithDistance(car_data) ==
    IF "Distance" \in car_data.columns THEN car_data
    ELSE [columns |-> car_data.columns \cup {"Distance"},
          rows    |-> [i \in DOMAIN car_data.rows |->
                         [Time     |-> car_data.rows[i].Time,
                          Speed    |-> car_data.rows[i].Speed,
                          Distance |-> DerivedDistance(car_data.rows[i].Time,
                                                       car_data.rows[i].Speed)]]]

\* Lines 197-206 taking the driver's first lap instead of the fastest.
CarData_firstlap(s, driver) ==
    LET car_data == WithDistance(get_car_data(s, driver.n, 1)) IN
    [driver   |-> driver,
     lap      |-> 1,
     Distance |-> IF s.car[driver.n] = "nodist" THEN "derived" ELSE "store",
     columns  |-> car_data.columns,
     rows     |-> car_data.rows]

\* The car-data table stored for a driver (lines 197-206): the table of the
\* fastest lap, `lap` being the lap it was fetched from.
CarData(s, driver) ==
    LET lap      == pick_fastest(s.laptimes[driver.n])
        car_data == WithDistance(get_car_data(s, driver.n, lap))
    IN  [driver   |-> driver,
         lap      |-> lap,
         Distance |-> IF s.car[driver.n] = "nodist" THEN "derived" ELSE "store",
         columns  |-> car_data.columns,
         rows     |-> car_data.rows]

\* Lines 195-206 without the test of car_data.empty (line 201).
DriverTelemetry_noemptytest(s, driver, telemetry_data) ==
    IF s.laps = "raise" \/ s.car[driver.n] = "raise" THEN Raised
    ELSE IF s.laps = "empty" \/ s.car[driver.n] \in {"nolaps", "nofastest"}
         THEN Returned(telemetry_data)
    ELSE Returned(DictSet(telemetry_data, driver, CarData(s, driver)))

\* Lines 195-206 with the table stored under the integer value of the driver number.
DriverTelemetry_intkey(s, driver, telemetry_data) ==
    IF s.laps = "raise" \/ s.car[driver.n] = "raise" THEN Raised
    ELSE IF s.laps = "empty" \/ s.car[driver.n] \in {"nolaps", "nofastest", "empty"}
         THEN Returned(telemetry_data)
    ELSE Returned(DictSet(telemetry_data, Num("int", driver.n), CarData(s, driver)))

\* Lines 195-206: the body of the inner try for one driver; returns the
\* dictionary after this driver.
DriverTelemetry(s, driver, telemetry_data) ==
    IF s.laps = "raise" \/ s.car[driver.n] = "raise" THEN Raised
    ELSE IF s.laps = "empty" \/ s.car[driver.n] \in {"nolaps", "nofastest", "empty"}
         THEN Returned(telemetry_data)
    ELSE Returned(DictSet(telemetry_data, driver, CarData(s, driver)))

\* Lines 208-210 with a handler that lets the exception out of the loop.
DriverTelemetryGuarded_abort(s, driver, telemetry_data) ==
    DriverTelemetry(s, driver, telemetry_data)

\* Lines 194-210: try / except Exception: continue.
DriverTelemetryGuarded(s, driver, telemetry_data) ==
    LET r == DriverTelemetry(s, driver, telemetry_data) IN
    IF r.raised THEN Returned(telemetry_data) ELSE r

\* Lines 193-210 with the loop left at the first driver that gets no entry.
RECURSIVE TelemetryLoop_break(_, _, _)
TelemetryLoop_break(s, ds, telemetry_data) ==
    IF ds = <<>> THEN Returned(telemetry_data)
    ELSE LET r == DriverTelemetryGuarded(s, Head(ds), telemetry_data) IN
         IF r.raised THEN Raised
         ELSE IF DOMAIN r.value = DOMAIN telemetry_data THEN Returned(telemetry_data)
         ELSE TelemetryLoop_break(s, Tail(ds), r.value)

\* Lines 193-210: the loop over session.drivers.
RECURSIVE TelemetryLoop(_, _, _)
TelemetryLoop(s, ds, telemetry_data) ==
    IF ds = <<>> THEN Returned(telemetry_data)
    ELSE LET r == DriverTelemetryGuarded(s, Head(ds), telemetry_data) IN
         IF r.raised THEN Raised
         ELSE TelemetryLoop(s, Tail(ds), r.value)

\* Lines 192-212: the body of the outer try.
TelemetryBody(s) ==
    IF s.drivers.raises THEN Raised
    ELSE TelemetryLoop(s, s.drivers.list, EmptyDict)

\* Lines 189-215.
_get_telemetry_data(s) ==
    LET r == TelemetryBody(s) IN
    IF r.raised THEN Returned(EmptyDict) ELSE r

(***************************************************************************)
(* _get_event_info                                                         *)
(*   session.event : [attr : "absent" | "raise" | "present", fields]       *)
(*     fields[col] : "missing" (event[col] raises) | "none" | "value"      *)
(*   session.circuit : "raise" | "none" | "nocorners" | "corners"          *)
(*   session.date, session.name : "raise" | "none" | "value"               *)
(*   session.weekend_session_type : "absent" | "raise" | "none" | "value"  *)
(***************************************************************************)
EventColumns == {"EventName", "Country", "Location", "OfficialEventName", "F1ApiSupport"}

\* The event_info key filled from each column of the event record (lines 139-143).
EventKeyColumn ==
    [k \in {"Name", "Country", "Location", "OfficialName", "F1ApiSupport"} |->
        CASE k = "Name" -> "EventName"
          [] k = "Country" -> "Country"
          [] k = "Location" -> "Location"
          [] k = "OfficialName" -> "OfficialEventName"
          [] k = "F1ApiSupport" -> "F1ApiSupport"]

\* Reading a Store member described by "raise" | "none" | "value".
Read(how, name) ==
    IF how = "raise" THEN Raised
    ELSE IF how = "none" THEN Returned(None)
    ELSE Returned(Val(name))

\* Lines 136-144: the entries added from session.event; raises when hasattr
\* or the read of any column raises.
EventFields(s) ==
    IF s.event.attr = "raise" THEN Raised
    ELSE IF s.event.attr = "absent" THEN Returned(EmptyDict)
    ELSE IF \E c \in EventColumns : s.event.fields[c] = "missing" THEN Raised
    ELSE Returned([k \in DOMAIN EventKeyColumn |->
                     Read(s.event.fields[EventKeyColumn[k]], EventKeyColumn[k]).value])

\* Lines 148-152: the body of the inner try.
CircuitFields(s) ==
    IF s.circuit = "raise" THEN Raised
    ELSE IF s.circuit \in {"none", "nocorners"} THEN Returned(EmptyDict)
    ELSE Returned([k \in {"CircuitLength"} |-> Val("corners.Distance.max")])

\* Lines 147-154: try / except Exception: log.
CircuitFieldsGuarded(s) ==
    LET r == CircuitFields(s) IN
    IF r.raised THEN Returned(EmptyDict) ELSE r

\* Lines 157-161: the entries added from the session itself.
SessionFields(s) ==
    IF s.date = "raise" \/ s.name = "raise" \/ s.weekend_session_type = "raise" THEN Raised
    ELSE Returned([k \in {"Date", "SessionType", "WeekendSessionType"} |->
                     CASE k = "Date" -> Read(s.date, "date").value
                       [] k = "SessionType" -> Read(s.name, "name").value
                       [] k = "WeekendSessionType" ->
                            IF s.weekend_session_type = "absent" THEN None
                            ELSE Read(s.weekend_session_type, "weekend_session_type").value])

\* Line 164 without the filter.
FilterNone_keep(d) ==
    d

\* Line 164: {k: v for k, v in event_info.items() if v is not None}
FilterNone(d) ==
    [k \in {x \in DOMAIN d : d[x] # None} |-> d[k]]

\* Lines 133-167: the body of the outer try.
EventInfoBody(s) ==
    LET e == EventFields(s)
        c == CircuitFieldsGuarded(s)
        f == SessionFields(s)
    IN  IF e.raised \/ c.raised \/ f.raised THEN Raised
        ELSE Returned(FilterNone(DictUpdate(DictUpdate(e.value, c.value), f.value)))

\* Lines 128-171.
_get_event_info(s) ==
    LET r == EventInfoBody(s) IN
    IF r.raised THEN Returned(EmptyDict) ELSE r

(***************************************************************************)
(* F1DataProcessor.load_session_data                                       *)
(*   session.get_session, session.load : "ok" | "raise"                    *)
(*   session.weather_data, session.track_status,                           *)
(*   session.race_control_messages : "absent" | "raise" | "table"          *)
(***************************************************************************)
\* The columns of the Store's tables that the page asks for (app.py lines
\* 260-263, 308, 355-358); pd.DataFrame() has none.
StoreColumns(name) ==
    CASE name = "laps" ->
            {"Time", "Driver", "LapTime", "LapNumber", "Stint", "Sector1Time",
             "Sector2Time", "Sector3Time", "Compound", "Position"}
      [] name = "weather_data" ->
            {"Time", "AirTemp", "Humidity", "Pressure", "Rainfall", "TrackTemp",
             "WindDirection", "WindSpeed"}
      [] OTHER -> {}

\* A table of the Store, and pd.DataFrame().
Table(name, empty) == [table |-> name, empty |-> empty, columns |-> StoreColumns(name)]
EmptyDataFrame == Table("pd.DataFrame()", TRUE)

\* Lines 67-69: session.X if hasattr(session, 'X') else pd.DataFrame()
TableOrEmpty(how, name) ==
    IF how = "raise" THEN Raised
    ELSE IF how = "absent" THEN Returned(EmptyDataFrame)
    ELSE Returned(Table(name, FALSE))

\* The values of the Driver column of session.laps: the abbreviation of every
\* driver the Store holds laps for.
LapsDriverColumn(s) ==
    IF s.laps # "rows" THEN {}
    ELSE {StoreValue("Abbreviation", n) : n \in {x \in DriverNs : s.laptimes[x] # <<>>}}

\* Line 51: session.laps.copy()
Timing(s) ==
    IF s.laps = "raise" THEN Raised
    ELSE Returned([table   |-> "laps",
                   empty   |-> s.laps = "empty",
                   columns |-> StoreColumns("laps"),
                   Driver  |-> LapsDriverColumn(s)])

\* Lines 47-48 with a call that raised made a second time.
StoreCalls_retry(s) ==
    IF s.get_session = "raise" THEN <<"get_session", "get_session">>
    ELSE IF s.load = "raise" THEN <<"get_session", "load", "load">>
    ELSE <<"get_session", "load">>

\* Lines 47-48: the Store calls made for one request, in order.
StoreCalls(s) ==
    IF s.get_session = "raise" THEN <<"get_session">> ELSE <<"get_session", "load">>

\* Lines 43-79 going on to build a bundle after get_session or load raised.
load_session_data_unloaded(s) ==
    LET timing       == Timing(s)
        telemetry    == _get_telemetry_data(s)
        driver_info  == _get_driver_info(s)
        event_info   == _get_event_info(s)
        weather      == TableOrEmpty(s.weather_data, "weather_data")
        track_status == TableOrEmpty(s.track_status, "track_status")
        race_control == TableOrEmpty(s.race_control_messages, "race_control_messages")
    IN  IF \/ timing.raised \/ telemetry.raised \/ driver_info.raised \/ event_info.raised
           \/ weather.raised \/ track_status.raised \/ race_control.raised
        THEN [raised |-> TRUE, value |-> None, calls |-> StoreCalls(s)]
        ELSE [raised |-> FALSE,
              value  |-> [session      |-> s,
                          timing       |-> timing.value,
                          telemetry    |-> telemetry.value,
                          weather      |-> weather.value,
                          track_status |-> track_status.value,
                          race_control |-> race_control.value,
                          driver_info  |-> driver_info.value,
                          event_info   |-> event_info.value],
              calls  |-> StoreCalls(s)]

\* Lines 43-79.  Every exception inside the try is logged and re-raised.
load_session_data(s) ==
    LET timing       == Timing(s)
        telemetry    == _get_telemetry_data(s)
        driver_info  == _get_driver_info(s)
        event_info   == _get_event_info(s)
        weather      == TableOrEmpty(s.weather_data, "weather_data")
        track_status == TableOrEmpty(s.track_status, "track_status")
        race_control == TableOrEmpty(s.race_control_messages, "race_control_messages")
    IN  IF \/ s.get_session = "raise" \/ s.load = "raise"
           \/ timing.raised \/ telemetry.raised \/ driver_info.raised \/ event_info.raised
           \/ weather.raised \/ track_status.raised \/ race_control.raised
        THEN [raised |-> TRUE, value |-> None, calls |-> StoreCalls(s)]
        ELSE [raised |-> FALSE,
              value  |-> [session      |-> s,
                          timing       |-> timing.value,
                          telemetry    |-> telemetry.value,
                          weather      |-> weather.value,
                          track_status |-> track_status.value,
                          race_control |-> race_control.value,
                          driver_info  |-> driver_info.value,
                          event_info   |-> event_info.value],
              calls  |-> StoreCalls(s)]

(***************************************************************************)
(* The Store's sessions                                                    *)
(***************************************************************************)
\* Sequences over S without repetition.
DistinctSeqs(S) ==
    {q \in UNION {[1..k -> S] : k \in 0..Cardinality(S)} :
        \A i, j \in DOMAIN q : i # j => q[i] # q[j]}

\* session.drivers: driver numbers as strings, each driver once.
DriverLists == {[i \in DOMAIN q |-> Num("str", q[i])] : q \in DistinctSeqs(DriverNs)}

\* session.results: one row per classified driver; the DriverNumber column
\* holds strings or integers.
ResultsTables ==
    {[i \in DOMAIN q |-> [DriverNumber |-> Num(kind, q[i]), complete |-> c[i]]] :
        <<q, kind, c>> \in {<<q, kind, c>> \in
            DistinctSeqs(DriverNs) \X {"str", "int"} \X [1..MaxDrivers -> BOOLEAN] :
            \A i \in 1..MaxDrivers : i > Len(q) => c[i]}}

\* The lap times the Store holds for a driver whose fetch ends as `outcome`:
\* no laps, laps without a time, or laps of which the last is the fastest.
LapTimesFor(outcome) ==
    IF outcome = "nolaps" THEN <<>>
    ELSE IF outcome = "nofastest" THEN <<0>>
    ELSE [k \in 1..MaxLaps |-> IF k = MaxLaps THEN 1 ELSE MaxLapTime]

\* The car data the Store holds for the laps of driver n whose fetch ends as
\* `outcome`: no rows, or one row per lap that tells the laps apart.
SamplesFor(outcome, n) ==
    [k \in 1..MaxLaps |->
        IF outcome = "empty" THEN <<>>
        ELSE <<[Time |-> IF k <= MaxTime THEN k ELSE MaxTime, Speed |-> MaxSpeed,
                Distance |-> Frac(k, 1)]>>]

\* The session s with the fetch outcomes c and the tables that go with them.
WithCar(s, c) ==
    [s EXCEPT !.car = c,
              !.laptimes = [n \in DriverNs |-> LapTimesFor(c[n])],
              !.samples = [n \in DriverNs |-> SamplesFor(c[n], n)]]

\* A session for which every Store call succeeds and every driver has data.
DefaultSession ==
    [get_session |-> "ok",
     load        |-> "ok",
     laps        |-> "rows",
     drivers     |-> [raises |-> FALSE, list |-> [i \in DriverNs |-> Num("str", i)]],
     car         |-> [n \in DriverNs |-> "dist"],
     laptimes    |-> [n \in DriverNs |-> LapTimesFor("dist")],
     samples     |-> [n \in DriverNs |-> SamplesFor("dist", n)],
     results     |-> [attr |-> "present",
                      rows |-> [i \in DriverNs |->
                                  [DriverNumber |-> Num("str", i), complete |-> TRUE]]],
     get_driver  |-> [n \in DriverNs |-> "ok"],
     team_color  |-> [n \in DriverNs |-> "ok"],
     event       |-> [attr |-> "present", fields |-> [c \in EventColumns |-> "value"]],
     circuit     |-> "corners",
     date        |-> "value",
     name        |-> "value",
     weekend_session_type  |-> "absent",
     weather_data          |-> "table",
     track_status          |-> "table",
     race_control_messages |-> "table"]

DriversAnswers == {[raises |-> TRUE, list |-> <<>>]} \cup
                  {[raises |-> FALSE, list |-> l] : l \in DriverLists}

\* Sessions that differ in what the roster extraction reads.
RosterSessions ==
    {[DefaultSession EXCEPT !.results = [attr |-> "present", rows |-> rows]] :
        rows \in ResultsTables}
    \cup {[DefaultSession EXCEPT !.results = [attr |-> "raise", rows |-> <<>>]]}
    \cup {[DefaultSession EXCEPT !.results = [attr |-> "absent", rows |-> <<>>],
                                 !.drivers = d, !.get_driver = g, !.team_color = c] :
            d \in DriversAnswers,
            g \in [DriverNs -> {"ok", "none", "raise"}],
            c \in [DriverNs -> {"ok", "raise"}]}

\* Sessions that differ in what the telemetry extraction reads.
TelemetrySessions ==
    {WithCar([DefaultSession EXCEPT !.drivers = d, !.laps = l], c) :
        d \in DriversAnswers,
        l \in {"raise", "empty", "rows"},
        c \in [DriverNs -> TelemetryOutcomes]}

\* Sessions that differ in what the event extraction reads.
EventSessions ==
    {[DefaultSession EXCEPT !.event = e, !.circuit = c, !.date = d, !.name = n,
                            !.weekend_session_type = w] :
        e \in {[attr |-> "absent", fields |-> [x \in EventColumns |-> "value"]],
               [attr |-> "raise", fields |-> [x \in EventColumns |-> "value"]]}
              \cup {[attr |-> "present", fields |-> f] :
                       f \in [EventColumns -> {"none", "value"}]}
              \cup {[attr |-> "present",
                     fields |-> [x \in EventColumns |-> IF x = m THEN "missing" ELSE "value"]] :
                       m \in EventColumns},
        c \in {"raise", "none", "nocorners", "corners"},
        d \in {"raise", "none", "value"},
        n \in {"raise", "value"},
        w \in {"absent", "raise", "none", "value"}}

\* Sessions that differ in what load_session_data itself reads.
LoadSessions ==
    {[DefaultSession EXCEPT !.get_session = g, !.load = l, !.laps = t,
                            !.weather_data = w, !.track_status = ts,
                            !.race_control_messages = rc] :
        g \in {"ok", "raise"}, l \in {"ok", "raise"}, t \in {"raise", "empty", "rows"},
        w \in {"absent", "raise", "table"}, ts \in {"absent", "raise", "table"},
        rc \in {"absent", "raise", "table"}}

\* Sessions without a results table that differ in roster and telemetry.
FallbackSessions ==
    {WithCar([DefaultSession EXCEPT !.results = [attr |-> "absent", rows |-> <<>>],
                                    !.drivers = [raises |-> FALSE, list |-> l],
                                    !.get_driver = g], c) :
        l \in DriverLists,
        g \in [DriverNs -> {"ok", "raise"}],
        c \in [DriverNs -> {"nolaps", "dist"}]}

\* Sequences over S of length lo..hi.
SeqsOf(S, lo, hi) == UNION {[1..k -> S] : k \in lo..hi}

\* Sessions that differ in the lap times of the first driver; each has at
\* least one lap with a time.
LapSessions ==
    {[DefaultSession EXCEPT !.laptimes[1] = q, !.car[1] = c,
                            !.samples[1] = [k \in 1..MaxLaps |->
                                <<[Time |-> 0, Speed |-> k, Distance |-> Frac(k, 1)]>>]] :
        q \in {x \in SeqsOf(0..MaxLapTime, 1, MaxLaps) : \E i \in DOMAIN x : x[i] # 0},
        c \in {"nodist", "dist"}}

\* A car-data table of k rows sampled one second apart from `first` on, all
\* at the same speed and, where the Store has the column, with distances
\* `step` apart.
SampleRows(k, first, speed, step) ==
    [i \in 1..k |-> [Time     |-> first + i - 1,
                     Speed    |-> speed,
                     Distance |-> Frac(step * i, 1)]]

\* Sessions that differ in the car data of the first driver's fastest lap:
\* tables of every length, start time and speed without a Distance column,
\* and tables of every length, start time and distance step with one.
SampleSessions ==
    {[DefaultSession EXCEPT !.car[1] = c,
                            !.samples[1] = [lap \in 1..MaxLaps |->
                                SampleRows(k, tm, IF c = "dist" THEN MaxSpeed ELSE x, x)]] :
        c \in {"nodist", "dist"}, k \in 1..MaxSamples, tm \in 0..MaxTime,
        x \in 0..MaxSpeed}

CoreSessions ==
    RosterSessions \cup TelemetrySessions \cup EventSessions \cup LoadSessions
    \cup FallbackSessions \cup LapSessions \cup SampleSessions

\* The sessions a page visitor requests: sessions the Store fails to resolve
\* or load, sessions without laps, weather or drivers, one whose first driver
\* has no car data, one without results rows and drivers, and sessions with
\* results tables of every length.
AppSessions ==
    {[DefaultSession EXCEPT !.get_session = g, !.load = l] :
        g \in {"ok", "raise"}, l \in {"ok", "raise"}}
    \cup {[DefaultSession EXCEPT !.laps = l] : l \in {"raise", "empty"}}
    \cup {[DefaultSession EXCEPT !.weather_data = "absent"],
          [DefaultSession EXCEPT !.drivers = [raises |-> FALSE, list |-> <<>>]],
          [DefaultSession EXCEPT !.drivers = [raises |-> FALSE, list |-> <<>>],
                                 !.results.rows = <<>>],
          WithCar(DefaultSession, [n \in DriverNs |-> IF n = 1 THEN "empty" ELSE "dist"])}
    \cup {[DefaultSession EXCEPT !.results.rows = SubSeq(DefaultSession.results.rows, 1, k)] :
            k \in 0..MaxDrivers}

(***************************************************************************)
(* The page: F1DashboardApp                                                *)
(***************************************************************************)
\* app.py lines 407-410 and 531-533:
\* {d['abbreviation']: d['number'] for d in driver_info}
RECURSIVE driver_mapping(_)
driver_mapping(driver_info) ==
    IF driver_info = <<>> THEN EmptyDict
    ELSE LET n == Len(driver_info) IN
         DictSet(driver_mapping(SubSeq(driver_info, 1, n - 1)),
                 driver_info[n].abbreviation, driver_info[n].number)

\* The keys of driver_mapping(driver_info) in insertion order: the
\* abbreviations in order of first appearance.
MappingKeys(driver_info) ==
    LET first == {i \in DOMAIN driver_info :
                     \A j \in 1..(i - 1) :
                         driver_info[j].abbreviation # driver_info[i].abbreviation}
        RECURSIVE Keys(_)
        Keys(i) == IF i > Len(driver_info) THEN <<>>
                   ELSE (IF i \in first THEN <<driver_info[i].abbreviation>> ELSE <<>>)
                        \o Keys(i + 1)
    IN  Keys(1)

\* app.py lines 423 and 431, 553-571: the telemetry table looked up for the
\* driver selected by abbreviation,
\* telemetry.get(str(driver_mapping.get(abbrev)), pd.DataFrame())
SelectedTelemetry(data, abbrev) ==
    LET number == str(driver_mapping(data.driver_info)[abbrev]) IN
    IF number \in DOMAIN data.telemetry THEN data.telemetry[number]
    ELSE EmptyDataFrame

\* app.py line 536: {v: k for k, v in driver_mapping.items()}
number_to_abbrev(driver_info) ==
    LET m    == driver_mapping(driver_info)
        keys == MappingKeys(driver_info)
        RECURSIVE Rev(_)
        Rev(i) == IF i = 0 THEN EmptyDict
                  ELSE DictSet(Rev(i - 1), m[keys[i]], keys[i])
    IN  Rev(Len(keys))

NoCall == [op |-> "none", res |-> Returned(None)]

\* A page run that has rendered no main content.
NoView ==
    [main |-> FALSE, reads |-> {}, keys |-> <<>>, selected |-> None,
     driver1 |-> None, driver2 |-> None, driver2_options |-> <<>>, comparison |-> FALSE]

\* init_session_state on a fresh page session (app.py lines 19-30).
Init ==
    /\ session_data = None
    /\ data_loaded = FALSE
    /\ pc = "idle"
    /\ pending = None
    /\ ui = <<>>
    /\ ret = "None"
    /\ session = DefaultSession
    /\ out = NoCall
    /\ view = NoView

\* `if session_data:` (line 150): a SessionData object is truthy.
Truthy(x) == x # None

\* Lines 152-157 with a check for an attribute SessionData does not define.
HasBundleAttributes_track(x) ==
    {"session", "timing", "telemetry", "weather", "driver_info", "event_info", "track"}
        \subseteq DOMAIN x

\* Lines 152-157: the hasattr checks on the returned object.
HasBundleAttributes(x) ==
    {"session", "timing", "telemetry", "weather", "driver_info", "event_info"}
        \subseteq DOMAIN x

\* A load request whose build raises, with the handler also clearing the page state.
LoadFails_reset(s) ==
    LET r == load_session_data(s) IN
    /\ pc = "idle"
    /\ r.raised
    /\ session' = s
    /\ out' = [op |-> "load_session_data", res |-> r]
    /\ ui' = <<"error: Error loading data">>
    /\ ret' = "False"
    /\ session_data' = None
    /\ data_loaded' = FALSE
    /\ pc' = "line741"
    /\ view' = NoView
    /\ UNCHANGED pending

\* Lines 142-148 and 171-173: a load request whose build raises.
LoadFails(s) ==
    LET r == load_session_data(s) IN
    /\ pc = "idle"
    /\ r.raised
    /\ session' = s
    /\ out' = [op |-> "load_session_data", res |-> r]
    /\ ui' = <<"error: Error loading data">>
    /\ ret' = "False"
    /\ pc' = "line741"
    /\ view' = NoView
    /\ UNCHANGED <<session_data, data_loaded, pending>>

\* Lines 142-157 and 164-169: a load request whose build returns.
LoadBuilt(s) ==
    LET r == load_session_data(s) IN
    /\ pc = "idle"
    /\ ~r.raised
    /\ session' = s
    /\ out' = [op |-> "load_session_data", res |-> r]
    /\ IF ~Truthy(r.value)
         THEN /\ ui' = <<"error: Failed to load session data">>
              /\ ret' = "False"
              /\ pc' = "line741"
              /\ UNCHANGED pending
         ELSE IF ~HasBundleAttributes(r.value)
         THEN /\ ui' = <<"error: Incomplete session data structure">>
              /\ ret' = "False"
              /\ pc' = "line741"
              /\ UNCHANGED pending
         ELSE /\ ui' = <<>>
              /\ ret' = "None"
              /\ pending' = r.value
              /\ pc' = "line159"
    /\ view' = NoView
    /\ UNCHANGED <<session_data, data_loaded>>

\* Lines 159-160 in the other order: the flag is raised at line 159.
Line159_flagfirst ==
    /\ pc = "line159"
    /\ data_loaded' = TRUE
    /\ pc' = "line160"
    /\ UNCHANGED <<session_data, pending, ui, ret, session, out, view>>

\* Line 159: st.session_state.session_data = session_data
Line159 ==
    /\ pc = "line159"
    /\ session_data' = pending
    /\ pc' = "line160"
    /\ UNCHANGED <<data_loaded, pending, ui, ret, session, out, view>>

\* Lines 160-162: data_loaded = True, st.success, return True.
Line160 ==
    /\ pc = "line160"
    /\ data_loaded' = TRUE
    /\ ui' = <<"success: Data loaded successfully!">>
    /\ ret' = "True"
    /\ pending' = None
    /\ pc' = "line741"
    /\ UNCHANGED <<session_data, session, out, view>>

\* A rerun of the script with init_session_state (lines 19-30) assigning its
\* defaults without the `not in st.session_state` tests.
Rerun_reinit ==
    /\ pc = "idle"
    /\ data_loaded' = FALSE
    /\ session_data' = None
    /\ out' = NoCall
    /\ ret' = "None"
    /\ ui' = <<>>
    /\ pc' = "line741"
    /\ view' = NoView
    /\ UNCHANGED <<pending, session>>

\* Lines 724-738 on a rerun in which "Load Data" was not clicked:
\* init_session_state finds its keys and assigns nothing and no request is
\* made; the run goes on to the main content.
Rerun ==
    /\ pc = "idle"
    /\ out' = NoCall
    /\ ret' = "None"
    /\ ui' = <<>>
    /\ pc' = "line741"
    /\ view' = NoView
    /\ UNCHANGED <<session_data, data_loaded, pending, session>>

(***************************************************************************)
(* The main content: run lines 740-761, the renderers and the charts       *)
(***************************************************************************)
\* DataFrame.empty
IsEmpty(df) == IF "rows" \in DOMAIN df THEN df.rows = <<>> ELSE df.empty

\* dict.get(key, default)
Get(d, key, default) == IF key \in DOMAIN d THEN d[key] ELSE default

\* The key of a chart element: f"{base}_{args[1]}_{args[2]}", or the literal
\* base when the key takes no arguments.
ChartKey(base, args) == [base |-> base, args |-> args]

\* str() and f-string formatting of a driver number or of None.
Format(x) == IF x = None THEN Val("None") ELSE str(x)

\* The choices st.selectbox offers: one of the options, None when there are none.
SelectBox(options) == IF options = <<>> THEN {None} ELSE {options[i] : i \in DOMAIN options}

\* What a renderer leaves behind: whether it read session_data, the chart
\* keys it registered in order, and the bundle after it ran.
NotRendered(data) == [reads |-> FALSE, keys |-> <<>>, data |-> data]

\* visualizations.py line 95 with the selection sharing the buffer of the
\* table it was taken from.
BooleanMask_view(timing_data, driver) ==
    [columns |-> timing_data.columns, Driver |-> {driver}, view |-> TRUE]

\* visualizations.py line 95: timing_data[timing_data['Driver'] == driver].
\* Indexing with a boolean mask builds a new table from the rows selected.
BooleanMask(timing_data, driver) ==
    [columns |-> timing_data.columns, Driver |-> {driver}, view |-> FALSE]

\* visualizations.py lines 100-101: the column assigned to driver_data when
\* it has none; the result is timing_data after the assignment.
SetLapTimeSeconds(timing_data, driver_data) ==
    IF "LapTimeSeconds" \in driver_data.columns THEN timing_data
    ELSE IF driver_data.view
         THEN [timing_data EXCEPT !.columns = @ \cup {"LapTimeSeconds"}]
         ELSE timing_data

\* visualizations.py lines 89-130: one trace per driver of the table; the
\* result is timing_data after the loop.
RECURSIVE LapTimeTraces(_, _)
LapTimeTraces(timing_data, drivers) ==
    IF drivers = {} THEN timing_data
    ELSE LET driver == CHOOSE d \in drivers : TRUE IN
         LapTimeTraces(SetLapTimeSeconds(timing_data, BooleanMask(timing_data, driver)),
                       drivers \ {driver})

create_lap_time_chart(timing_data) == LapTimeTraces(timing_data, timing_data.Driver)

\* app.py lines 226-248
render_event_info(loaded, data) ==
    IF ~loaded THEN NotRendered(data)
    ELSE [reads |-> TRUE, keys |-> <<>>, data |-> data]

\* app.py lines 261-264
LapChannels ==
    {"Time", "Driver", "LapTime", "LapNumber", "Stint",
     "Sector1Time", "Sector2Time", "Sector3Time", "Compound"}

\* app.py lines 250-297
render_lap_analysis(loaded, data) ==
    IF ~loaded THEN NotRendered(data)
    ELSE LET charted == ~IsEmpty(data.timing) /\ LapChannels \subseteq data.timing.columns
         IN  [reads |-> TRUE,
              keys  |-> IF ~charted THEN <<>>
                        ELSE <<ChartKey("lap_time_chart", <<>>)>> \o
                             (IF "Compound" \in data.timing.columns
                              THEN <<ChartKey("tyre_strategy_chart", <<>>)>> ELSE <<>>),
              data  |-> IF ~charted THEN data
                        ELSE [data EXCEPT !.timing = create_lap_time_chart(@)]]

\* app.py lines 299-342
render_position_changes(loaded, data) ==
    IF ~loaded THEN NotRendered(data)
    ELSE [reads |-> TRUE,
          keys  |-> IF ~IsEmpty(data.timing) /\ "Position" \in data.timing.columns
                    THEN <<ChartKey("position_changes_chart", <<>>)>> ELSE <<>>,
          data  |-> data]

\* app.py lines 354-357
WeatherChannels ==
    {"Time", "AirTemp", "Humidity", "Pressure", "Rainfall",
     "TrackTemp", "WindDirection", "WindSpeed"}

\* app.py lines 344-395
render_weather(loaded, data) ==
    IF ~loaded THEN NotRendered(data)
    ELSE [reads |-> TRUE,
          keys  |-> IF ~IsEmpty(data.weather) /\ WeatherChannels \subseteq data.weather.columns
                    THEN <<ChartKey("weather_chart", <<>>)>> ELSE <<>>,
          data  |-> data]

\* app.py line 435
TelemetryChannels == {"Speed", "RPM", "nGear", "DRS", "Distance", "Time"}

\* app.py lines 397-519 with selected_driver_abbrev the choice made in the
\* "Select Driver" box.
render_telemetry(loaded, data, selected_driver_abbrev) ==
    IF ~loaded THEN NotRendered(data)
    ELSE LET selected_driver_number ==
                 Format(Get(driver_mapping(data.driver_info), selected_driver_abbrev, None))
             telemetry == Get(data.telemetry, selected_driver_number, EmptyDataFrame)
         IN  [reads |-> TRUE,
              keys  |-> IF ~IsEmpty(telemetry) /\ TelemetryChannels \subseteq telemetry.columns
                        THEN <<ChartKey("speed_trace", <<selected_driver_number>>),
                               ChartKey("gear_shifts", <<selected_driver_number>>)>>
                        ELSE <<>>,
              data  |-> data]

\* app.py line 553 with the first selection left among the options.
driver2_options_all(driver_options, driver1_abbrev) == driver_options

\* app.py line 553: [d for d in driver_options if d != driver1_abbrev]
driver2_options(driver_options, driver1_abbrev) ==
    SelectSeq(driver_options, LAMBDA d : d # driver1_abbrev)

\* app.py lines 562-649: the charts of the comparison for the two drivers
\* selected, in the order of the tabs.
ComparisonKeys(data, driver1_number, driver2_number) ==
    LET telemetry1 == Get(data.telemetry, Format(driver1_number), EmptyDataFrame)
        telemetry2 == Get(data.telemetry, Format(driver2_number), EmptyDataFrame)
        Has(t, channels) == ~IsEmpty(t) /\ channels \subseteq t.columns
        One(cond, key)   == IF cond THEN <<key>> ELSE <<>>
    IN  One(Has(telemetry1, {"Speed", "Distance"}) /\ Has(telemetry2, {"Speed", "Distance"}),
            ChartKey("speed_comparison", <<Format(driver1_number), Format(driver2_number)>>))
        \o One(Has(telemetry1, {"nGear", "Distance"}),
               ChartKey("gear_shifts", <<Format(driver1_number)>>))
        \o One(Has(telemetry2, {"nGear", "Distance"}),
               ChartKey("gear_shifts", <<Format(driver2_number)>>))
        \o One(Has(telemetry1, {"Speed", "Distance"}),
               ChartKey("speed_trace", <<Format(driver1_number)>>))
        \o One(Has(telemetry2, {"Speed", "Distance"}),
               ChartKey("speed_trace", <<Format(driver2_number)>>))

\* app.py lines 521-723 with the choices made in the two boxes; `comparison`
\* tells whether the body under line 562 ran.
render_driver_comparison(loaded, data, driver1_abbrev, driver2_abbrev) ==
    IF ~loaded THEN NotRendered(data) @@ [comparison |-> FALSE]
    ELSE LET mapping        == driver_mapping(data.driver_info)
             driver1_number == Get(mapping, driver1_abbrev, None)
             driver2_number == Get(mapping, driver2_abbrev, None)
             comparison     == Truthy(driver1_number) /\ Truthy(driver2_number)
         IN  [reads      |-> TRUE,
              keys       |-> IF comparison
                             THEN ComparisonKeys(data, driver1_number, driver2_number)
                             ELSE <<>>,
              data       |-> data,
              comparison |-> comparison]

\* app.py lines 415, 541: [d['abbreviation'] for d in data.driver_info]
driver_options(data) == [i \in DOMAIN data.driver_info |-> data.driver_info[i].abbreviation]

\* app.py lines 741-761: render_event_info and the five tabs in order, each
\* working on the bundle the one before it left.
MainContent(loaded, data, selected, driver1, driver2) ==
    LET e == render_event_info(loaded, data)
        l == render_lap_analysis(loaded, e.data)
        p == render_position_changes(loaded, l.data)
        t == render_telemetry(loaded, p.data, selected)
        w == render_weather(loaded, t.data)
        c == render_driver_comparison(loaded, w.data, driver1, driver2)
        ran == [render_event_info        |-> e.reads,
                render_lap_analysis      |-> l.reads,
                render_position_changes  |-> p.reads,
                render_telemetry         |-> t.reads,
                render_weather           |-> w.reads,
                render_driver_comparison |-> c.reads]
    IN  [data |-> c.data,
         view |-> [main            |-> TRUE,
                   reads           |-> {r \in DOMAIN ran : ran[r]},
                   keys            |-> l.keys \o p.keys \o t.keys \o w.keys \o c.keys,
                   selected        |-> selected,
                   driver1         |-> driver1,
                   driver2         |-> driver2,
                   driver2_options |-> driver2_options(driver_options(data), driver1),
                   comparison      |-> c.comparison]]

\* Lines 740-761 with the main content rendered whatever data_loaded says
\* and the renderers reading session_data without testing it.
Line741_unguarded ==
    /\ pc = "line741"
    /\ pc' = "idle"
    /\ IF data_loaded
       THEN \E selected \in SelectBox(driver_options(session_data)),
               driver1 \in SelectBox(driver_options(session_data)) :
                \E driver2 \in SelectBox(driver2_options(driver_options(session_data), driver1)) :
                    LET r == MainContent(TRUE, session_data, selected, driver1, driver2) IN
                    /\ view' = r.view
                    /\ session_data' = r.data
       ELSE /\ view' = [NoView EXCEPT !.main = TRUE,
                                      !.reads = {"render_event_info", "render_lap_analysis"}]
            /\ UNCHANGED session_data
    /\ UNCHANGED <<data_loaded, pending, ui, ret, session, out>>

\* Lines 740-761: the main content of a page run. The user's choices in the
\* three driver boxes are any of the options offered.
Line741 ==
    /\ pc = "line741"
    /\ pc' = "idle"
    /\ IF data_loaded
       THEN \E selected \in SelectBox(driver_options(session_data)),
               driver1 \in SelectBox(driver_options(session_data)) :
                \E driver2 \in SelectBox(driver2_options(driver_options(session_data), driver1)) :
                    LET r == MainContent(data_loaded, session_data, selected, driver1, driver2) IN
                    /\ view' = r.view
                    /\ session_data' = r.data
       ELSE /\ view' = NoView
            /\ UNCHANGED session_data
    /\ UNCHANGED <<data_loaded, pending, ui, ret, session, out>>

Next ==
    \/ \E s \in AppSessions : LoadFails(s)
    \/ \E s \in AppSessions : LoadBuilt(s)
    \/ Line159
    \/ Line160
    \/ Rerun
    \/ Line741

Spec == Init /\ [][Next]_vars

(***************************************************************************)
(* The builder called on its own: F1DataProcessor and its helpers          *)
(***************************************************************************)
InitCore ==
    /\ session_data = None
    /\ data_loaded = FALSE
    /\ pc = "idle"
    /\ pending = None
    /\ ui = <<>>
    /\ ret = "None"
    /\ session \in CoreSessions
    /\ out = NoCall
    /\ view = NoView

Call(op, res) ==
    /\ out' = [op |-> op, res |-> res]
    /\ UNCHANGED <<session_data, data_loaded, pc, pending, ui, ret, session, view>>

CallLoadSessionData == Call("load_session_data", load_session_data(session))

CallGetDriverInfo == Call("_get_driver_info", _get_driver_info(session))

CallGetEventInfo == Call("_get_event_info", _get_event_info(session))

CallGetTelemetryData == Call("_get_telemetry_data", _get_telemetry_data(session))

NextCore ==
    \/ CallLoadSessionData
    \/ CallGetDriverInfo
    \/ CallGetEventInfo
    \/ CallGetTelemetryData

SpecCore == InitCore /\ [][NextCore]_vars

(***************************************************************************)
(* get_event_by_name, get_event_by_round                                   *)
(*   An event name is [id, case]: the same words written as in the         *)
(*   schedule ("Title") or in lower case ("lower").  A schedule is a       *)
(*   sequence of rows [EventName, RoundNumber]; testing events share       *)
(*   round 0.                                                              *)
(***************************************************************************)
EventNames == [id : 1..MaxEvents, case : {"Title", "lower"}]

RoundNumbers == {0, 1}

Schedules == SeqsOf([EventName : EventNames, RoundNumber : RoundNumbers], 0, MaxEvents)

\* str.lower()
lower(name) == [id |-> name.id, case |-> "lower"]

\* pd.Series()
EmptySeries == [type |-> "pd.Series()"]

\* schedule[mask].iloc[0] inside try / except IndexError: return pd.Series()
FirstRow(rows) ==
    IF rows = <<>> THEN Returned(EmptySeries) ELSE Returned(rows[1])

\* Lines 173-179.
get_event_by_name(schedule, name) ==
    LET Matches(row) == lower(row.EventName) = lower(name)
    IN  FirstRow(SelectSeq(schedule, Matches))

\* Lines 181-187.
get_event_by_round(schedule, round_number) ==
    LET Matches(row) == row.RoundNumber = round_number
    IN  FirstRow(SelectSeq(schedule, Matches))

CallGetEventByName ==
    \E schedule \in Schedules, name \in EventNames :
        /\ out' = [op |-> "get_event_by_name", res |-> get_event_by_name(schedule, name),
                   schedule |-> schedule, name |-> name]
        /\ UNCHANGED <<session_data, data_loaded, pc, pending, ui, ret, session, view>>

CallGetEventByRound ==
    \E schedule \in Schedules, round_number \in RoundNumbers \cup {MaxEvents} :
        /\ out' = [op |-> "get_event_by_round",
                   res |-> get_event_by_round(schedule, round_number),
                   schedule |-> schedule, round_number |-> round_number]
        /\ UNCHANGED <<session_data, data_loaded, pc, pending, ui, ret, session, view>>

NextSchedule ==
    \/ CallGetEventByName
    \/ CallGetEventByRound

SpecSchedule == Init /\ [][NextSchedule]_vars

(***************************************************************************)
(* Properties                                                              *)
(***************************************************************************)
ErrorLoadingData == <<"error: Error loading data">>

\* The bundle of the last load_session_data call that returned.
BundleReturned == out.op = "load_session_data" /\ ~out.res.raised
Bundle == out.res.value

Numbers(driver_info) == {driver_info[i].number : i \in DOMAIN driver_info}

\* The members of a sequence.
Range(q) == {q[i] : i \in DOMAIN q}

\* C1: a load request whose build raises leaves session_data and data_loaded
\* as they were before the request and shows exactly one error message.
C1_FailedLoadKeepsState ==
    [][(pc = "idle" /\ out'.op = "load_session_data" /\ out'.res.raised)
         => /\ session_data' = session_data
            /\ data_loaded' = data_loaded
            /\ ui' = ErrorLoadingData
            /\ ret' = "False"]_vars

\* C1 witness: a failed request after a successful one; the earlier bundle is
\* still held and the error is on screen.
C1_Witness ==
    /\ pc = "idle"
    /\ out.op = "load_session_data" /\ out.res.raised
    /\ ui = ErrorLoadingData
    /\ data_loaded
    /\ session_data # None

\* C2 (as claimed): every telemetry key of a returned bundle is the number of
\* some driver_info entry.
C2_NoOrphanTelemetry ==
    BundleReturned =>
        \A k \in DOMAIN Bundle.telemetry : k \in Numbers(Bundle.driver_info)

\* C3 (as claimed): load_session_data raises exactly when the Store's
\* get_session or load call raises.
C3_OnlyStoreLoadPropagates ==
    out.op = "load_session_data" =>
        (out.res.raised <=> (session.get_session = "raise" \/ session.load = "raise"))

\* The drivers of the list whose telemetry fetch raises.
FailingFetches(s) == {d \in Range(s.drivers.list) : s.car[d.n] = "raise"}

\* Exactly one driver's fetch raises and the laps and the list are readable.
OneFetchFails(s) ==
    /\ ~s.drivers.raises
    /\ s.laps = "rows"
    /\ Cardinality(FailingFetches(s)) = 1

\* The telemetry returned by the last call.
TelemetryOut == IF out.op = "load_session_data" THEN Bundle.telemetry ELSE out.res.value

\* C4: when exactly one driver's telemetry fetch raises, the call does not
\* raise, the failing driver has no entry, and every other driver has exactly
\* the entry it has when the failing fetch is replaced by one that does not raise.
C4_OneFetchFailureContained ==
    (out.op \in {"_get_telemetry_data", "load_session_data"} /\ OneFetchFails(session)) =>
        /\ ~out.res.raised
        /\ \A d \in FailingFetches(session) :
              /\ d \notin DOMAIN TelemetryOut
              /\ \A o \in TelemetryOutcomes \ {"raise"} :
                    LET w == _get_telemetry_data(
                                 [session EXCEPT !.car[d.n] = o]).value
                    IN  /\ DOMAIN TelemetryOut = (DOMAIN w) \ {d}
                        /\ \A e \in DOMAIN TelemetryOut : TelemetryOut[e] = w[e]

\* C4 witness: one fetch failed and another driver's telemetry was returned.
C4_Witness ==
    /\ out.op = "_get_telemetry_data"
    /\ OneFetchFails(session)
    /\ DOMAIN out.res.value # {}

\* The roster is built from the raw driver list.
FallbackPath(s) == s.results.attr = "absent" /\ ~s.drivers.raises

\* The roster that has one record, in list order, for each listed driver that
\* satisfies Kept.
IsRosterOf(driver_info, s, Kept(_)) ==
    LET kept == SelectSeq(s.drivers.list, Kept) IN
    /\ Len(driver_info) = Len(kept)
    /\ \A i \in DOMAIN kept :
          /\ driver_info[i].number = str(kept[i])
          /\ driver_info[i].abbreviation = StoreValue("Abbreviation", kept[i].n)

\* C5 (as claimed): on the fallback path the roster has one record, in list
\* order, for each driver number whose get_driver lookup returns a record.
C5_OneRecordPerLookup ==
    (out.op = "_get_driver_info" /\ FallbackPath(session)) =>
        LET Kept(d) == session.get_driver[d.n] = "ok"
        IN  IsRosterOf(out.res.value, session, Kept)

\* C5 (amended): on the fallback path the roster has one record, in list
\* order, for each driver number whose get_driver lookup returns a record and
\* whose team-colour lookup does not raise, and none for any other number.
C5_OneRecordPerResolvedDriver ==
    (out.op = "_get_driver_info" /\ FallbackPath(session)) =>
        LET Kept(d) == session.get_driver[d.n] = "ok" /\ session.team_color[d.n] = "ok"
        IN  IsRosterOf(out.res.value, session, Kept)

\* C5 witness: a lookup raised for one listed driver and the roster still
\* holds the record of another.
C5_Witness ==
    /\ out.op = "_get_driver_info"
    /\ FallbackPath(session)
    /\ \E d \in Range(session.drivers.list) : session.get_driver[d.n] = "raise"
    /\ out.res.value # <<>>

\* The rows of the results table whose record cannot be extracted.
FailingRows(s) == {i \in DOMAIN s.results.rows : ~s.results.rows[i].complete}

\* C6 (as claimed): when the record of a single results row cannot be
\* extracted, the records of all other rows are still in driver_info.
C6_OnlyFailingRowOmitted ==
    (/\ out.op \in {"_get_driver_info", "load_session_data"}
     /\ ~out.res.raised
     /\ session.results.attr = "present"
     /\ Cardinality(FailingRows(session)) = 1) =>
        LET driver_info == IF out.op = "load_session_data"
                           THEN Bundle.driver_info ELSE out.res.value
        IN  \A i \in (DOMAIN session.results.rows) \ FailingRows(session) :
                str(session.results.rows[i].DriverNumber) \in Numbers(driver_info)

\* The keys a sub-step of _get_event_info yields when it does not fail.
StepKeys(step) == IF step.raised THEN {} ELSE DOMAIN FilterNone(step.value)

\* C7 (as claimed): when one of the three sub-steps of _get_event_info fails,
\* the keys of the sub-steps that did not fail are all in the result.
C7_SubStepFailureContained ==
    LET steps == <<EventFields(session), CircuitFields(session), SessionFields(session)>>
    IN  (out.op = "_get_event_info"
         /\ Cardinality({i \in 1..3 : steps[i].raised}) = 1) =>
            \A i \in 1..3 : StepKeys(steps[i]) \subseteq DOMAIN out.res.value

\* What the Store holds for an event_info key: "value" when a real value can
\* be read, something else otherwise.
SourceOf(s, k) ==
    CASE k \in DOMAIN EventKeyColumn ->
            IF s.event.attr = "present" THEN s.event.fields[EventKeyColumn[k]] ELSE "absent"
      [] k = "CircuitLength" -> IF s.circuit = "corners" THEN "value" ELSE "absent"
      [] k = "Date" -> s.date
      [] k = "SessionType" -> s.name
      [] k = "WeekendSessionType" -> s.weekend_session_type

\* The event_info returned by the last call.
EventInfoOut == IF out.op = "load_session_data" THEN Bundle.event_info ELSE out.res.value

\* C8: no key of event_info maps to None, and a key is present only when the
\* Store holds a real value for it.
C8_NoNoneInEventInfo ==
    ((out.op = "_get_event_info") \/ BundleReturned) =>
        \A k \in DOMAIN EventInfoOut :
            /\ EventInfoOut[k] # None
            /\ SourceOf(session, k) = "value"

\* C8 witness: a bundle whose source has no weekend_session_type and a None
\* event field; both keys are missing and others are present.
C8_Witness ==
    /\ BundleReturned
    /\ session.weekend_session_type = "absent"
    /\ session.event.attr = "present"
    /\ session.event.fields["Country"] = "none"
    /\ DOMAIN Bundle.event_info =
          {"Name", "Location", "OfficialName", "F1ApiSupport", "CircuitLength",
           "Date", "SessionType"}

\* The keys event_info can hold (lines 139-143, 152, 158-160).
EventInfoKeys ==
    (DOMAIN EventKeyColumn) \cup {"CircuitLength", "Date", "SessionType", "WeekendSessionType"}

\* C9: none of the three extraction helpers raises: each returns a list or a
\* mapping, and when the driver list or the results table cannot be read the
\* result is empty.
C9_HelpersNeverRaise ==
    /\ out.op \in {"_get_driver_info", "_get_event_info", "_get_telemetry_data"}
          => ~out.res.raised
    /\ out.op = "_get_driver_info"
          => DOMAIN out.res.value = 1..Len(out.res.value)
    /\ out.op = "_get_event_info"
          => DOMAIN out.res.value \subseteq EventInfoKeys
    /\ out.op = "_get_telemetry_data"
          => DOMAIN out.res.value \subseteq Range(session.drivers.list)
    /\ (out.op = "_get_driver_info" /\ session.results.attr = "raise")
          => out.res.value = <<>>
    /\ (out.op = "_get_driver_info" /\ session.results.attr = "absent"
            /\ session.drivers.raises)
          => out.res.value = <<>>
    /\ (out.op = "_get_telemetry_data" /\ session.drivers.raises)
          => out.res.value = EmptyDict

\* C9 witness: the results table could not be read and the helper returned
\* an empty roster.
C9_Witness ==
    /\ out.op = "_get_driver_info"
    /\ session.results.attr = "raise"
    /\ ~out.res.raised
    /\ out.res.value = <<>>

\* C10 (as claimed): with a results table the roster has one record per row
\* in table order and the driver list is not read; without one the roster
\* follows the order of the driver list.
C10_RosterSourceAndOrder ==
    out.op = "_get_driver_info" =>
        /\ session.results.attr = "present" =>
              /\ "drivers" \notin out.res.reads
              /\ Len(out.res.value) = Len(session.results.rows)
              /\ \A i \in DOMAIN session.results.rows :
                    out.res.value[i].number = str(session.results.rows[i].DriverNumber)
        /\ "drivers" \in out.res.reads => session.results.attr = "absent"
        /\ FallbackPath(session) =>
              LET Kept(d) == str(d) \in Numbers(out.res.value)
              IN  IsRosterOf(out.res.value, session, Kept)

\* The driver has a lap with a lap time in the Store's lap table.
HasCompletedLap(s, d) ==
    s.laps = "rows" /\ \E i \in DOMAIN s.laptimes[d.n] : s.laptimes[d.n][i] # 0

\* The entry holds the samples of one of the driver's laps, and no other lap
\* of the driver has a smaller lap time.
HoldsFastestLap(s, d, entry) ==
    LET times == s.laptimes[d.n] IN
    /\ entry.lap \in DOMAIN times
    /\ times[entry.lap] # 0
    /\ \A j \in DOMAIN times : times[j] # 0 => times[entry.lap] <= times[j]
    /\ Len(entry.rows) = Len(s.samples[d.n][entry.lap])
    /\ \A i \in DOMAIN entry.rows :
          /\ entry.rows[i].Time = s.samples[d.n][entry.lap][i].Time
          /\ entry.rows[i].Speed = s.samples[d.n][entry.lap][i].Speed

\* C11 (as claimed): the telemetry of a returned bundle has one entry for each
\* listed driver that has a completed lap, holding the samples of that
\* driver's fastest lap.
C11_EntryPerDriverWithLap ==
    (BundleReturned /\ ~session.drivers.raises) =>
        /\ DOMAIN Bundle.telemetry =
              {d \in Range(session.drivers.list) : HasCompletedLap(session, d)}
        /\ \A d \in DOMAIN Bundle.telemetry :
              HoldsFastestLap(session, d, Bundle.telemetry[d])

\* C11 (amended): the telemetry of a returned bundle has one entry for each
\* listed driver that has a completed lap and whose fetch returned a
\* non-empty car-data table without raising, and no other entry; the entry
\* holds the samples of that driver's fastest lap.
C11_EntryPerDriverWithCarData ==
    (BundleReturned /\ ~session.drivers.raises) =>
        /\ DOMAIN Bundle.telemetry =
              {d \in Range(session.drivers.list) :
                  /\ HasCompletedLap(session, d)
                  /\ session.car[d.n] \in {"nodist", "dist"}}
        /\ \A d \in DOMAIN Bundle.telemetry :
              HoldsFastestLap(session, d, Bundle.telemetry[d])

\* C11 witness: a bundle holds the samples of a lap that is not the driver's
\* first, and a listed driver with a completed lap has no entry.
C11_Witness ==
    /\ BundleReturned
    /\ ~session.drivers.raises
    /\ \E d \in DOMAIN Bundle.telemetry : Bundle.telemetry[d].lap > 1
    /\ \E d \in Range(session.drivers.list) :
          HasCompletedLap(session, d) /\ d \notin DOMAIN Bundle.telemetry

\* The last call returned a telemetry mapping.
TelemetryReturned ==
    out.op \in {"_get_telemetry_data", "load_session_data"} /\ ~out.res.raised

\* The fraction d equals time * speed / 3.6.
IsElapsedTimesSpeed(d, time, speed) ==
    d.num * 36 = time * speed * 10 * d.den

\* C13: when the Store's car-data table has no Distance column, the stored
\* table has the Store's rows and the Distance of every row is
\* elapsed_seconds * Speed / 3.6; when the Store's table has a Distance
\* column, the table is stored with the Store's Distance values.
C13_DistanceDerivedOrKept ==
    TelemetryReturned =>
        \A d \in DOMAIN TelemetryOut :
            LET entry == TelemetryOut[d]
                store == session.samples[d.n][entry.lap]
            IN  /\ "Distance" \in entry.columns
                /\ Len(entry.rows) = Len(store)
                /\ session.car[d.n] = "nodist" =>
                      \A i \in DOMAIN store :
                          /\ entry.rows[i].Time = store[i].Time
                          /\ entry.rows[i].Speed = store[i].Speed
                          /\ IsElapsedTimesSpeed(entry.rows[i].Distance,
                                                 store[i].Time, store[i].Speed)
                /\ session.car[d.n] = "dist" => entry.rows = store

\* C13 witness: a returned telemetry table got a derived, non-zero Distance
\* in a row after the first, and another kept the Store's Distance column.
C13_Witness ==
    /\ TelemetryReturned
    /\ \E d \in DOMAIN TelemetryOut :
          /\ session.car[d.n] = "nodist"
          /\ Len(TelemetryOut[d].rows) > 1
          /\ TelemetryOut[d].rows[2].Distance.num # 0
    /\ \E d \in DOMAIN TelemetryOut :
          /\ session.car[d.n] = "dist"
          /\ TelemetryOut[d].rows[1].Distance.num # 0

\* The session s with all three optional tables provided.
WithOptionalTables(s) ==
    [s EXCEPT !.weather_data = "table", !.track_status = "table",
              !.race_control_messages = "table"]

\* The bundle field is the Store's table when the Store provides it and an
\* empty table when it does not.
StoreTableOrEmpty(field, how, name) ==
    IF how = "table" THEN field = Table(name, FALSE) ELSE field = EmptyDataFrame

\* C14 (as claimed): a build that succeeds when the Store provides the
\* weather, track-status and race-control tables also succeeds when the Store
\* does not provide some of them; each field of the bundle is the Store's
\* table when provided and an empty table otherwise.
C14_MissingTableBecomesEmpty ==
    (out.op = "load_session_data"
        /\ ~load_session_data(WithOptionalTables(session)).raised) =>
        /\ ~out.res.raised
        /\ StoreTableOrEmpty(Bundle.weather, session.weather_data, "weather_data")
        /\ StoreTableOrEmpty(Bundle.track_status, session.track_status, "track_status")
        /\ StoreTableOrEmpty(Bundle.race_control, session.race_control_messages,
                             "race_control_messages")

\* How many times the Store operation was called.
CallCount(calls, name) == Cardinality({i \in DOMAIN calls : calls[i] = name})

\* C15: one load request calls resolve-session at most once and load at most
\* once; when one of them raises it is the last Store call of the request
\* and the request fails.
C15_NoRetry ==
    out.op = "load_session_data" =>
        LET calls == out.res.calls IN
        /\ CallCount(calls, "get_session") <= 1
        /\ CallCount(calls, "load") <= 1
        /\ session.get_session = "raise" =>
              /\ calls = <<"get_session">>
              /\ out.res.raised
              /\ ret = "False"
        /\ (session.get_session = "ok" /\ session.load = "raise") =>
              /\ calls = <<"get_session", "load">>
              /\ out.res.raised
              /\ ret = "False"

\* C15 witness: the load call of a request raised after the session was
\* resolved, and the page shows the error.
C15_Witness ==
    /\ out.op = "load_session_data"
    /\ session.get_session = "ok"
    /\ session.load = "raise"
    /\ out.res.calls = <<"get_session", "load">>
    /\ ui = <<"error: Error loading data">>

\* The Store resolved and loaded a session whose driver list is readable and
\* whose drivers all have a completed lap.
LoadedWithLaps(s) ==
    /\ s.get_session = "ok"
    /\ s.load = "ok"
    /\ ~s.drivers.raises
    /\ \A d \in Range(s.drivers.list) : HasCompletedLap(s, d)

\* The roster source names as many drivers as the driver list and every
\* read of it succeeds.
RosterComplete(s) ==
    \/ /\ s.results.attr = "present"
       /\ Len(s.results.rows) = Len(s.drivers.list)
       /\ \A i \in DOMAIN s.results.rows : s.results.rows[i].complete
    \/ /\ s.results.attr = "absent"
       /\ \A d \in Range(s.drivers.list) :
             s.get_driver[d.n] = "ok" /\ s.team_color[d.n] = "ok"

\* The event record has a name and no unguarded read of the builder raises.
EventAndTablesReadable(s) ==
    /\ s.event.attr = "present"
    /\ \A c \in EventColumns : s.event.fields[c] # "missing"
    /\ s.event.fields["EventName"] = "value"
    /\ "raise" \notin {s.date, s.name, s.weekend_session_type, s.weather_data,
                       s.track_status, s.race_control_messages}

\* The bundle of the end-to-end scenario for N drivers.
FullBundle(N) ==
    /\ ~out.res.raised
    /\ Len(Bundle.driver_info) = N
    /\ Cardinality(DOMAIN Bundle.telemetry) = N
    /\ ~Bundle.timing.empty
    /\ "Name" \in DOMAIN Bundle.event_info
    /\ Bundle.event_info["Name"] = Val("EventName")

Abbreviations(driver_info) == {driver_info[i].abbreviation : i \in DOMAIN driver_info}

\* C17 (as claimed): in every bundle with a non-empty timing table, the
\* driver identifier of every timing row is the abbreviation of some
\* driver_info entry.
C17_TimingDriversInRoster ==
    (BundleReturned /\ ~Bundle.timing.empty) =>
        Bundle.timing.Driver \subseteq Abbreviations(Bundle.driver_info)

\* C18: in every returned bundle no two driver_info entries share a number
\* and no two share an abbreviation; the mapping from abbreviation to number
\* that the page builds and its reverse are inverse bijections between the
\* roster's abbreviations and numbers.
C18_RosterMappingBijective ==
    BundleReturned =>
        LET driver_info == Bundle.driver_info
            m           == driver_mapping(driver_info)
            r           == number_to_abbrev(driver_info)
        IN  /\ \A i, j \in DOMAIN driver_info :
                  i # j => /\ driver_info[i].number # driver_info[j].number
                           /\ driver_info[i].abbreviation # driver_info[j].abbreviation
            /\ DOMAIN m = Abbreviations(driver_info)
            /\ DOMAIN r = Numbers(driver_info)
            /\ \A i \in DOMAIN driver_info :
                  /\ m[driver_info[i].abbreviation] = driver_info[i].number
                  /\ r[driver_info[i].number] = driver_info[i].abbreviation
            /\ \A a \in DOMAIN m : r[m[a]] = a
            /\ \A n \in DOMAIN r : m[r[n]] = n

\* C18 witness: a bundle was returned whose roster has MaxDrivers entries,
\* built from a results table with integer driver numbers.
C18_Witness ==
    /\ BundleReturned
    /\ Len(Bundle.driver_info) = MaxDrivers
    /\ session.results.attr = "present"
    /\ \A i \in DOMAIN session.results.rows :
          session.results.rows[i].DriverNumber.kind = "int"

\* C19: every telemetry key of a returned bundle is a string, and for every
\* driver_info entry whose driver has a telemetry entry the lookup made by
\* the page with the string form of the entry's number returns that driver's
\* table and not the empty default.
C19_LookupByNumberFindsTable ==
    BundleReturned =>
        /\ \A k \in DOMAIN Bundle.telemetry : k = str(k)
        /\ \A i \in DOMAIN Bundle.driver_info :
              \A k \in DOMAIN Bundle.telemetry :
                  k.n = Bundle.driver_info[i].number.n =>
                      LET found == SelectedTelemetry(Bundle,
                                       Bundle.driver_info[i].abbreviation)
                      IN  /\ found = Bundle.telemetry[k]
                          /\ found # EmptyDataFrame
                          /\ found.driver.n = Bundle.driver_info[i].number.n

\* C19 witness: the roster was built from a results table with integer
\* driver numbers and the lookup for one of its entries found a table.
C19_Witness ==
    /\ BundleReturned
    /\ session.results.attr = "present"
    /\ \E i \in DOMAIN Bundle.driver_info :
          /\ session.results.rows[i].DriverNumber.kind = "int"
          /\ SelectedTelemetry(Bundle, Bundle.driver_info[i].abbreviation)
                # EmptyDataFrame

\* C20: once a load has succeeded data_loaded stays True and a bundle is
\* held; session_data changes in no step but line 159 of a request whose
\* build returned, and there it becomes the bundle that build returned, with
\* every field taken from it.
C20_HeldBundleStaysUntilNextLoad ==
    [][/\ data_loaded => (data_loaded' /\ session_data' # None)
       /\ session_data' # session_data =>
             /\ pc = "line159"
             /\ out.op = "load_session_data"
             /\ ~out.res.raised
             /\ session_data' = load_session_data(session).value]_vars

\* C20 witness: with an earlier bundle held, a request for a session without
\* a weather feed has just replaced it by the bundle built for that session.
C20_Witness ==
    /\ pc = "line160"
    /\ data_loaded
    /\ session.weather_data = "absent"
    /\ session_data = load_session_data(session).value
    /\ session_data.weather = EmptyDataFrame

\* C21: a request for which get_session or load raises ends raised and
\* returns no bundle; a returned bundle holds the handle of its own request
\* and every field of it is what the builder extracts from that handle.
C21_NoBundleWithoutHandle ==
    out.op = "load_session_data" =>
        /\ (session.get_session = "raise" \/ session.load = "raise") =>
              (out.res.raised /\ out.res.value = None)
        /\ ~out.res.raised =>
              /\ Bundle.session = session
              /\ Bundle.timing = Timing(session).value
              /\ Bundle.telemetry = _get_telemetry_data(session).value
              /\ Bundle.driver_info = _get_driver_info(session).value
              /\ Bundle.event_info = _get_event_info(session).value
              /\ Bundle.weather = TableOrEmpty(session.weather_data, "weather_data").value

\* C21 witness: with the bundle of an earlier request held by the page, a
\* request whose session could not be resolved returned no bundle.
C21_Witness ==
    /\ out.op = "load_session_data"
    /\ session.get_session = "raise"
    /\ out.res.raised
    /\ out.res.value = None
    /\ data_loaded
    /\ session_data.session.get_session = "ok"

\* C23: every table of a returned telemetry mapping has at least one row and
\* a Distance column with a value in every row.
C23_TelemetryTablesNonEmptyWithDistance ==
    TelemetryReturned =>
        \A d \in DOMAIN TelemetryOut :
            /\ TelemetryOut[d].rows # <<>>
            /\ "Distance" \in TelemetryOut[d].columns
            /\ \A i \in DOMAIN TelemetryOut[d].rows :
                  "Distance" \in DOMAIN TelemetryOut[d].rows[i]

\* C23 witness: a telemetry mapping was returned with a table whose Distance
\* was derived, while a listed driver whose car data is empty has no table.
C23_Witness ==
    /\ TelemetryReturned
    /\ \E d \in DOMAIN TelemetryOut : TelemetryOut[d].Distance = "derived"
    /\ \E d \in Range(session.drivers.list) :
          session.car[d.n] = "empty" /\ d \notin DOMAIN TelemetryOut

\* The Store holds what an entry for driver d needs: laps of d, a lap of d
\* with a time, rows of car data for the fastest of them, and no raising step.
EntryPossible(s, d) ==
    /\ s.laps = "rows"
    /\ s.car[d.n] # "raise"
    /\ s.laptimes[d.n] # <<>>
    /\ \E i \in DOMAIN s.laptimes[d.n] : s.laptimes[d.n][i] # 0
    /\ s.samples[d.n][pick_fastest(s.laptimes[d.n])] # <<>>

\* The session s with the fetch of driver n ending as o, and the tables of
\* driver n that go with it.
WithOutcome(s, n, o) ==
    [s EXCEPT !.car[n] = o,
              !.laptimes[n] = LapTimesFor(o),
              !.samples[n] = SamplesFor(o, n)]

\* C24: a returned telemetry mapping has an entry for d exactly when d is in
\* the driver list, d has laps and a fastest lap with non-empty car data and
\* no step for d raised; whether d has an entry is the same whatever the
\* Store answers for any other driver.
C24_EntryIffFetchSucceeds ==
    (TelemetryReturned /\ ~session.drivers.raises) =>
        /\ \A d \in DOMAIN TelemetryOut : d \in Range(session.drivers.list)
        /\ \A d \in Range(session.drivers.list) :
              /\ d \in DOMAIN TelemetryOut <=> EntryPossible(session, d)
              /\ \A e \in Range(session.drivers.list) \ {d} :
                    \A o \in TelemetryOutcomes :
                        (d \in DOMAIN _get_telemetry_data(
                                   WithOutcome(session, e.n, o)).value)
                            <=> d \in DOMAIN TelemetryOut

\* C24 witness: of two listed drivers the first got no entry, for a lap
\* without a time, and the second got one.
C24_Witness ==
    /\ TelemetryReturned
    /\ Len(session.drivers.list) >= 2
    /\ session.car[session.drivers.list[1].n] = "nofastest"
    /\ session.drivers.list[1] \notin DOMAIN TelemetryOut
    /\ session.drivers.list[2] \in DOMAIN TelemetryOut

\* The rows of the schedule that satisfy Matches, in schedule order.
MatchingRows(schedule, Matches(_)) ==
    {i \in DOMAIN schedule : Matches(schedule[i])}

\* The result is the first row of the schedule that satisfies Matches, or an
\* empty record when no row does; the call does not raise.
IsFirstMatch(res, schedule, Matches(_)) ==
    /\ ~res.raised
    /\ IF MatchingRows(schedule, Matches) = {} THEN res.value = EmptySeries
       ELSE \E i \in MatchingRows(schedule, Matches) :
               /\ \A j \in MatchingRows(schedule, Matches) : i <= j
               /\ res.value = schedule[i]

\* C30 (as claimed): get_event_by_name returns the first schedule row whose
\* EventName is exactly the given name and an empty record when there is
\* none; get_event_by_round does the same for RoundNumber.
C30_FirstExactMatch ==
    /\ out.op = "get_event_by_name" =>
          LET Exact(row) == row.EventName = out.name
          IN  IsFirstMatch(out.res, out.schedule, Exact)
    /\ out.op = "get_event_by_round" =>
          LET Exact(row) == row.RoundNumber = out.round_number
          IN  IsFirstMatch(out.res, out.schedule, Exact)

\* C22: no step of the main content (render_event_info, the five tab
\* renderers and the create_* charts they call, create_lap_time_chart with the
\* timing table included) changes any field or table of the held bundle.
C22_RenderLeavesBundle ==
    [][pc = "line741" => session_data' = session_data]_vars

\* C22 witness: the lap time chart has been drawn for a timing table with
\* drivers and without a LapTimeSeconds column, so line 101 assigned the
\* column for each of them, and the table held still has no such column.
C22_Witness ==
    /\ pc = "idle"
    /\ view.main
    /\ \E i \in DOMAIN view.keys : view.keys[i] = ChartKey("lap_time_chart", <<>>)
    /\ session_data.timing.Driver # {}
    /\ "LapTimeSeconds" \notin session_data.timing.columns

\* C25: in every state of the page, the two inside load_session_data
\* included, data_loaded implies that session_data is a bundle a build
\* returned, with every attribute; and at line 160, where the flag is about
\* to be raised, session_data already holds the bundle the build of this
\* request returned.
C25_LoadedImpliesBundle ==
    /\ data_loaded =>
          /\ session_data # None
          /\ HasBundleAttributes(session_data)
          /\ \E s \in AppSessions :
                /\ ~load_session_data(s).raised
                /\ session_data = load_session_data(s).value
    /\ pc = "line160" =>
          /\ ~out.res.raised
          /\ session_data = out.res.value
    /\ pc = "line159" => ~out.res.raised /\ pending = out.res.value

\* C25 witness: the first load is between lines 159 and 160: the bundle is
\* stored and the flag is still down.
C25_Witness ==
    /\ pc = "line160"
    /\ ~data_loaded
    /\ session_data = load_session_data(session).value

\* C26: when load_session_data has returned, exactly one message is shown,
\* the success or "Error loading data"; it returned True exactly when the
\* processor returned without raising, and then the page state holds the
\* bundle returned; it returned False exactly when the processor raised, and
\* then the page state is the one before the call. The messages "Incomplete
\* session data structure" and "Failed to load session data" are never shown.
C26_OneOutcomePerCall ==
    /\ (pc = "line741" /\ out.op = "load_session_data") =>
          /\ Len(ui) = 1
          /\ ret \in {"True", "False"}
          /\ ret = "True" <=> ~out.res.raised
          /\ ret = "True" <=> ui = <<"success: Data loaded successfully!">>
          /\ ret = "False" <=> ui = ErrorLoadingData
          /\ ret = "True" => data_loaded /\ session_data = out.res.value
    /\ \A i \in DOMAIN ui :
          ui[i] \notin {"error: Incomplete session data structure",
                        "error: Failed to load session data"}

\* C26 witness: a call has returned True for a session whose bundle has an
\* empty timing table and telemetry for every driver.
C26_Witness ==
    /\ pc = "line741"
    /\ out.op = "load_session_data"
    /\ ret = "True"
    /\ session.laps = "empty"
    /\ session_data.timing.empty

\* The chart keys of a page run are pairwise different.
KeysUnique(keys) == \A i, j \in DOMAIN keys : i # j => keys[i] # keys[j]

\* C27 (as claimed): in every page run that renders the main content, the
\* keys of the chart elements are pairwise different, whatever driver is
\* selected in the telemetry tab and whichever two in the comparison tab.
C27_ChartKeysUnique ==
    (pc = "idle" /\ view.main) => KeysUnique(view.keys)

\* C28: the main content is rendered only when data_loaded is True, and a
\* renderer reads session_data only then, when it holds a bundle: a run with
\* the flag down renders nothing and dereferences nothing.
C28_RenderOnlyWhenLoaded ==
    /\ view.main => data_loaded
    /\ view.reads # {} => data_loaded /\ session_data # None
    /\ (pc = "idle" /\ ~data_loaded) => view = NoView
    /\ (pc = "idle" /\ data_loaded) =>
          /\ view.main
          /\ view.reads = {"render_event_info", "render_lap_analysis",
                           "render_position_changes", "render_telemetry",
                           "render_weather", "render_driver_comparison"}

\* C28 witness: the first load of the page has failed and the run has gone
\* past the main content without rendering it.
C28_Witness ==
    /\ pc = "idle"
    /\ out.op = "load_session_data"
    /\ out.res.raised
    /\ ~data_loaded
    /\ session_data = None
    /\ view = NoView

\* C29: in the comparison tab the options for the second driver are the
\* roster's abbreviations without the first selection, in roster order; a
\* second driver selected differs from the first; the comparison is rendered
\* exactly when both boxes hold a driver, and never for a roster with fewer
\* than two distinct abbreviations.
C29_SecondDriverDiffers ==
    (pc = "idle" /\ view.main) =>
        LET abbrevs == Abbreviations(session_data.driver_info) IN
        /\ Range(view.driver2_options) = abbrevs \ {view.driver1}
        /\ \A i, j \in DOMAIN view.driver2_options :
              i < j => \E a, b \in DOMAIN session_data.driver_info :
                          /\ a < b
                          /\ session_data.driver_info[a].abbreviation = view.driver2_options[i]
                          /\ session_data.driver_info[b].abbreviation = view.driver2_options[j]
        /\ view.driver2 # None =>
              /\ view.driver2 \in abbrevs
              /\ view.driver2 # view.driver1
        /\ view.comparison <=> (view.driver1 \in abbrevs /\ view.driver2 \in abbrevs)
        /\ Cardinality(abbrevs) < 2 =>
              /\ ~view.comparison
              /\ \A i \in DOMAIN view.keys : view.keys[i].base # "speed_comparison"

\* C29 witness: a comparison of two different drivers has been rendered.
C29_Witness ==
    /\ pc = "idle"
    /\ view.main
    /\ view.comparison
    /\ view.driver1 # view.driver2
    /\ \E i \in DOMAIN view.keys : view.keys[i].base = "speed_comparison"

====
